---- MODULE Spec2Model ----
(***************************************************************************)
(* A model of rerun (skelterjohn/rerun): the orchestration loop of         *)
(* src/unnamed/part_000 (startup cycle, debounce, the change-triggered     *)
(* pipeline, the process supervisor `run`) and the two watch-set builders  *)
(* (watch of src/unnamed/part_000, addToWatcher of src/rerun.go).          *)
(*                                                                         *)
(* Time is discrete: one Tick is one unit, the quiescence window           *)
(* ("interval") is W ticks.  A blocked select reacts at once, so time does  *)
(* not pass while debounce sits at its select with a case ready.           *)
(***************************************************************************)
EXTENDS Integers, Sequences, FiniteSets, TLC

\* ------------------------------------------------------------------ bounds
\* The quiescence window, in ticks.
W == 2
\* Capacity of the `changes` channel as modelled.
ChangesCap == 2
\* Number of change events the producer delivers in one run.
MaxEvents == 3
\* Number of frames the remote writes before it closes the connection.
MaxMsgs == 2
\* Number of watchers the watch loop of rerun.go creates in one run.
MaxWatchers == 3
\* Number of process ids the operating system hands out.
MaxPids == 2
\* Depth of the call stack at which the Go runtime gives up.
MaxStack == 6

\* ------------------------------------------------------------------ values
\* A file path is <<name, extension>>; the empty string is NoFile.
NoFile == <<"", "">>
Files == {<<"a", ".go">>, <<"b", ".go">>, <<"x", ".swp">>}
\* filepath.Ext
Ext(file) == file[2]
\* Combined output of a `go get` run: empty, or one of two error texts.
Outputs == {"", "E1", "E2"}
Pids == 1 .. MaxPids
\* Import paths: the entry module and three more packages of the workspace,
\* a standard-library package (pkg.Goroot) and a path build.Import cannot
\* resolve.
Packages == {"main", "a", "b", "c"}
Goroot == {"fmt"}
Unresolved == {"gone"}
\* pkg.Imports is sorted by import path.
ImportOrder == <<"a", "b", "c", "fmt", "gone", "main">>
Min(a, b) == IF a < b THEN a ELSE b
InSeq(x, s) == \E i \in 1 .. Len(s) : s[i] = x

VARIABLES
    \* flags (part_000:29-31)
    do_tests, do_build, never_run,
    \* rerun's position, its locals and the error it returns
    pc, no_run, ierr, errorOutput, reterr,
    \* debounce: the channel, the pending slot, the time.After timer
    changes, changed, timer,
    \* run's goroutine: position, proc, the received relaunch value; the
    \* operating system's processes
    spc, proc, relaunch, child,
    \* history: the current pipeline cycle, the Install output of the
    \* cycle before it
    cyc, prevOut,
    \* history of debounce: ticks since the last .go event was received,
    \* that event's path, bursts and triggers so far, the last trigger's
    \* path and the gap at which it was emitted, and whether every event
    \* so far arrived inside the premise of the burst property
    gap, lastGo, nburst, ntrig, trigPath, trigGap, scope,
    \* history of the events: whether a .go event was produced that no
    \* cycle has started after; the .go events produced during the cycle
    \* under observation (k, counted up to 2) and the cycles started since
    \* it finished (extra)
    owed, coal,
    \* number of events produced so far
    nprod,
    \* the watch-set builders: which one runs, the import graph, the call
    \* stack, the visited map, the subscriptions per directory, the state
    \* of the construction; history: directories a file changed in, and
    \* those whose change reached the changes channel
    builder, imports, wstack, watching, subs, wstate, touched, forwarded,
    \* history of an edit of the import graph while rerun runs: its phase
    \* (none, edited, ran: a pipeline cycle succeeded after it) and whether
    \* the watch set covered the graph before it
    edit,
    \* connect: its position, the bytes the remote will still deliver
    \* before it closes the connection, the locals length and buf, the
    \* error connect returns, the paths sent on buildCh; history: the
    \* frames the remote wrote and the number of bytes it got out
    cpc, stream, length, buf, cerr, buildCh, script, cut,
    \* the watch loop of rerun.go: its position, the watcher in the
    \* variable `watcher` (0: none), and every watcher created so far
    lpc, cur, ws

sysVars == <<do_tests, do_build, never_run, pc, no_run, ierr, errorOutput,
             reterr, owed, coal, changes, changed, timer, spc, proc, relaunch, child,
             cyc, prevOut, gap, lastGo, nburst, ntrig, trigPath, trigGap,
             scope, nprod>>
watchVars == <<builder, imports, wstack, watching, subs, wstate, touched,
               forwarded, edit>>
connVars == <<cpc, stream, length, buf, cerr, buildCh, script, cut>>
loopVars == <<lpc, cur, ws>>
vars == <<sysVars, watchVars, connVars, loopVars>>

flagVars == <<do_tests, do_build, never_run>>
debVars  == <<changes, changed, timer>>
supVars  == <<spc, proc, relaunch, child>>
histDeb  == <<gap, lastGo, nburst, ntrig, trigPath, trigGap, scope, owed,
              coal>>
\* The state the orchestration loop and the supervisor never touch.
farVars  == <<watchVars, connVars, loopVars>>

NoCycle == [kind |-> "none", stages |-> <<>>, inst |-> "none", out |-> "",
            printed |-> FALSE, err |-> "none", test |-> "none",
            build |-> "none", sent |-> FALSE]
NoEvents == [k |-> 0, extra |-> 0]
NewCycle(kind) == [NoCycle EXCEPT !.kind = kind]

\* The state of rerun after flag.Parse, before rerun() runs.
SysInit ==
    /\ pc = "resolve"
    /\ no_run = FALSE
    /\ ierr = "nil"
    /\ errorOutput = ""
    /\ reterr = <<"nil">>
    /\ owed = FALSE
    /\ coal = NoEvents
    /\ changes = <<>>
    /\ changed = NoFile
    /\ timer = W
    /\ spc = "off"
    /\ proc = 0
    /\ relaunch = FALSE
    /\ child = [p \in Pids |-> "free"]
    /\ cyc = NoCycle
    /\ prevOut = ""
    /\ gap = W + 1
    /\ lastGo = NoFile
    /\ nburst = 0
    /\ ntrig = 0
    /\ trigPath = NoFile
    /\ trigGap = 0
    /\ scope = TRUE
    /\ nprod = 0

NoEdit == [phase |-> "none", sound |-> FALSE]
\* No watch set is under construction.
WatchIdle ==
    /\ builder = "watch"
    /\ imports = [m \in Packages |-> {}]
    /\ wstack = <<>>
    /\ watching = {}
    /\ subs = [m \in Packages |-> 0]
    /\ wstate = "idle"
    /\ touched = {}
    /\ forwarded = {}
    /\ edit = NoEdit

\* connect is not running.
ConnIdle ==
    /\ cpc = "off"
    /\ stream = <<>>
    /\ length = 0
    /\ buf = <<>>
    /\ cerr = "nil"
    /\ buildCh = <<>>
    /\ script = <<>>
    /\ cut = 0

\* The watch loop of rerun.go is not running.
LoopIdle ==
    /\ lpc = "off"
    /\ cur = 0
    /\ ws = <<>>

Init ==
    /\ do_tests \in BOOLEAN
    /\ do_build \in BOOLEAN
    /\ never_run \in BOOLEAN
    /\ SysInit
    /\ WatchIdle
    /\ ConnIdle
    /\ LoopIdle

\* ------------------------------------------------------------ the stages
\* install(buildpath, lastError) on a `go get` that printed `out` and
\* exited with success (exitOK) or failure.
install(out, exitOK, lastError) ==
    IF out # ""
    THEN [installed |-> FALSE, errorOutput |-> out, err |-> "compile error",
          printed |-> (out # lastError)]
    ELSE [installed |-> TRUE, errorOutput |-> "",
          err |-> (IF exitOK THEN "nil" ELSE "exit status"),
          printed |-> FALSE]

\* The history record of a cycle after its Install stage returned r.
AfterInstall(c, r) ==
    [c EXCEPT !.stages = Append(@, "install"),
              !.inst = IF r.installed THEN "ok" ELSE "fail",
              !.out = r.errorOutput,
              !.printed = r.printed,
              !.err = r.err]
AfterTest(c, passed) ==
    [c EXCEPT !.stages = Append(@, "test"),
              !.test = IF passed THEN "pass" ELSE "fail"]
AfterBuild(c, passed) ==
    [c EXCEPT !.stages = Append(@, "build"),
              !.build = IF passed THEN "pass" ELSE "fail"]

\* ------------------------------------------------------------ rerun, startup
\* What build.Import can answer for the entry module: an error, or a
\* package with this name.
Resolutions == {"error", "main", "lib"}
\* The error rerun returns after build.Import and the package-name check.
ResolveErr(res) ==
    CASE res = "error" -> <<"import">>
      [] res # "main"  -> <<"expected package", "main", "got", res>>
      [] OTHER         -> <<"nil">>

\* Faulty variant, for mutation analysis: the supervisor is started before the checks.
ResolveRunFirst ==
    /\ pc = "resolve"
    /\ \E res \in Resolutions :
         /\ reterr' = ResolveErr(res)
         /\ spc' = IF ~never_run THEN "recv" ELSE "off"
         /\ IF ResolveErr(res) = <<"nil">>
            THEN /\ pc' = "s_test"
                 /\ cyc' = NewCycle("startup")
            ELSE /\ pc' = "exit"
                 /\ UNCHANGED cyc
    /\ UNCHANGED <<farVars, flagVars, no_run, ierr, errorOutput, debVars, proc,
                   relaunch, child, prevOut, histDeb, nprod>>

\* build.Import of the entry module, the package-name check and the start
\* of the supervisor goroutine.
Resolve ==
    /\ pc = "resolve"
    /\ \E res \in Resolutions :
         /\ reterr' = ResolveErr(res)
         /\ IF ResolveErr(res) = <<"nil">>
            THEN /\ pc' = "s_test"
                 /\ spc' = IF ~never_run THEN "recv" ELSE "off"
                 /\ cyc' = NewCycle("startup")
            ELSE /\ pc' = "exit"
                 /\ UNCHANGED <<spc, cyc>>
    /\ UNCHANGED <<farVars, flagVars, no_run, ierr, errorOutput, debVars, proc,
                   relaunch, child, prevOut, histDeb, nprod>>

\* if *do_tests { passed, _ := test(buildpath); if !passed { no_run = true } }
STest ==
    /\ pc = "s_test"
    /\ IF do_tests
       THEN \E passed \in BOOLEAN :
              /\ no_run' = ~passed
              /\ cyc' = AfterTest(cyc, passed)
       ELSE UNCHANGED <<no_run, cyc>>
    /\ pc' = "s_build"
    /\ UNCHANGED <<farVars, flagVars, reterr, ierr, errorOutput, debVars, supVars, prevOut,
                   histDeb, nprod>>

\* Faulty variant, for mutation analysis: the package stage not gated on the test result.
StartupBuildCondNoGate == do_build
StartupBuildCond == do_build /\ ~no_run

\* if *do_build && !no_run { gobuild(buildpath) }
SBuild ==
    /\ pc = "s_build"
    /\ IF StartupBuildCond
       THEN \E passed \in BOOLEAN : cyc' = AfterBuild(cyc, passed)
       ELSE UNCHANGED cyc
    /\ pc' = "s_install"
    /\ UNCHANGED <<farVars, flagVars, reterr, no_run, ierr, errorOutput, debVars, supVars,
                   prevOut, histDeb, nprod>>

\* Faulty variant, for mutation analysis: the restart not gated on the install error.
StartupSendCondNoErr(err) == ~no_run /\ ~never_run
\* Faulty variant, for mutation analysis: a failed package stage holds the restart back.
StartupSendCondBuildGate(err) ==
    ~no_run /\ ~never_run /\ err = "nil" /\ cyc.build # "fail"
StartupSendCond(err) == ~no_run /\ ~never_run /\ err = "nil"

\* Entering debounce: changed = "", the first select arms a fresh timer.
\* The producer goroutine is started just before.
EnterSelect ==
    /\ pc' = "select"
    /\ changed' = NoFile
    /\ timer' = W

\* _, errorOutput, ierr := install(buildpath, ""), then the decision to
\* send on runch.
SInstall ==
    /\ pc = "s_install"
    /\ \E out \in Outputs, exitOK \in BOOLEAN :
         LET r == install(out, exitOK, "") IN
           /\ errorOutput' = r.errorOutput
           /\ ierr' = r.err
           /\ cyc' = AfterInstall(cyc, r)
           /\ IF StartupSendCond(r.err)
              THEN pc' = "s_send" /\ UNCHANGED <<changed, timer>>
              ELSE EnterSelect
    /\ UNCHANGED <<farVars, flagVars, reterr, no_run, changes, supVars, prevOut, histDeb,
                   nprod>>

\* ------------------------------------------------------------ debounce
\* The event producer (watch's forwarding loop, or connect's) puts a path
\* on the changes channel.
Produce ==
    /\ pc \in {"select", "f_install", "f_test", "f_build", "f_send"}
    /\ nprod < MaxEvents
    /\ Len(changes) < ChangesCap
    /\ \E file \in Files :
         /\ changes' = Append(changes, file)
         /\ IF Ext(file) = ".go"
            THEN /\ owed' = TRUE
                 /\ coal' = IF pc = "select" THEN NoEvents
                            ELSE IF coal.extra = 0
                                 THEN [coal EXCEPT !.k = Min(@ + 1, 2)]
                                 ELSE [k |-> 1, extra |-> 0]
            ELSE UNCHANGED <<owed, coal>>
    /\ nprod' = nprod + 1
    /\ scope' = (scope /\ pc = "select")
    /\ UNCHANGED <<farVars, flagVars, reterr, pc, no_run, ierr, errorOutput, changed, timer,
                   supVars, cyc, prevOut, gap, lastGo, nburst, ntrig,
                   trigPath, trigGap>>

\* Faulty variant, for mutation analysis: a received event does not re-arm the timer.
DebounceRecvNoReset ==
    /\ pc = "select"
    /\ changes # <<>>
    /\ LET file == Head(changes) IN
         /\ changes' = Tail(changes)
         /\ IF Ext(file) = ".go"
            THEN /\ changed' = file
                 /\ lastGo' = file
                 /\ nburst' = IF gap >= W THEN nburst + 1 ELSE nburst
                 /\ gap' = 0
                 /\ scope' = (scope /\ gap # W /\ timer # 0)
            ELSE /\ UNCHANGED <<changed, lastGo, nburst, gap>>
                 /\ scope' = FALSE
    /\ UNCHANGED timer
    /\ UNCHANGED <<farVars, flagVars, reterr, pc, no_run, ierr, errorOutput, supVars, cyc,
                   prevOut, ntrig, trigPath, trigGap, owed, coal, nprod>>

\* Faulty variant, for mutation analysis: an event that is not a .go file empties the slot.
DebounceRecvClears ==
    /\ pc = "select"
    /\ changes # <<>>
    /\ LET file == Head(changes) IN
         /\ changes' = Tail(changes)
         /\ IF Ext(file) = ".go"
            THEN /\ changed' = file
                 /\ lastGo' = file
                 /\ nburst' = IF gap >= W THEN nburst + 1 ELSE nburst
                 /\ gap' = 0
                 /\ scope' = (scope /\ gap # W /\ timer # 0)
            ELSE /\ changed' = NoFile
                 /\ UNCHANGED <<lastGo, nburst, gap>>
                 /\ scope' = FALSE
    /\ timer' = W
    /\ UNCHANGED <<farVars, flagVars, reterr, pc, no_run, ierr, errorOutput, supVars, cyc,
                   prevOut, ntrig, trigPath, trigGap, owed, coal, nprod>>

\* Faulty variant, for mutation analysis: f is called for every .go event received.
DebounceRecvCallsF ==
    /\ pc = "select"
    /\ changes # <<>>
    /\ LET file == Head(changes) IN
         /\ changes' = Tail(changes)
         /\ IF Ext(file) = ".go"
            THEN /\ changed' = file
                 /\ lastGo' = file
                 /\ nburst' = IF gap >= W THEN nburst + 1 ELSE nburst
                 /\ gap' = 0
                 /\ scope' = (scope /\ gap # W /\ timer # 0)
                 /\ pc' = "f_install"
                 /\ prevOut' = cyc.out
                 /\ cyc' = NewCycle("change")
                 /\ ntrig' = ntrig + 1
                 /\ trigPath' = file
                 /\ trigGap' = 0
                 /\ owed' = FALSE
                 /\ coal' = IF coal.k >= 1
                            THEN [coal EXCEPT !.extra = Min(@ + 1, 2)]
                            ELSE NoEvents
            ELSE /\ UNCHANGED <<changed, lastGo, nburst, gap, pc, prevOut, cyc,
                                ntrig, trigPath, trigGap, owed, coal>>
                 /\ scope' = FALSE
    /\ timer' = W
    /\ UNCHANGED <<farVars, flagVars, reterr, no_run, ierr, errorOutput, supVars,
                   nprod>>

\* case file := <-changes
DebounceRecv ==
    /\ pc = "select"
    /\ changes # <<>>
    /\ LET file == Head(changes) IN
         /\ changes' = Tail(changes)
         /\ IF Ext(file) = ".go"
            THEN /\ changed' = file
                 /\ lastGo' = file
                 /\ nburst' = IF gap >= W THEN nburst + 1 ELSE nburst
                 /\ gap' = 0
                 /\ scope' = (scope /\ gap # W /\ timer # 0)
            ELSE /\ UNCHANGED <<changed, lastGo, nburst, gap>>
                 /\ scope' = FALSE
    /\ timer' = W
    /\ UNCHANGED <<farVars, flagVars, reterr, pc, no_run, ierr, errorOutput, supVars, cyc,
                   prevOut, ntrig, trigPath, trigGap, owed, coal, nprod>>

\* case <-time.After("interval"), up to the call of f
DebounceTimer ==
    /\ pc = "select"
    /\ timer = 0
    /\ IF changed # NoFile
       THEN /\ pc' = "f_install"
            /\ prevOut' = cyc.out
            /\ cyc' = NewCycle("change")
            /\ ntrig' = ntrig + 1
            /\ trigPath' = changed
            /\ trigGap' = gap
            /\ owed' = FALSE
            /\ coal' = IF coal.k >= 1
                       THEN [coal EXCEPT !.extra = Min(@ + 1, 2)]
                       ELSE NoEvents
            /\ UNCHANGED timer
       ELSE /\ timer' = W
            /\ UNCHANGED <<pc, prevOut, cyc, ntrig, trigPath, trigGap, owed,
                           coal>>
    /\ scope' = (scope /\ changes = <<>>)
    /\ UNCHANGED <<farVars, flagVars, reterr, no_run, ierr, errorOutput, changes, changed,
                   supVars, gap, lastGo, nburst, nprod>>

\* ------------------------------------------------------------ rerun, f
\* if installed, _, _ := install(buildpath, errorOutput); !installed { return }
FInstall ==
    /\ pc = "f_install"
    /\ \E out \in Outputs, exitOK \in BOOLEAN :
         LET r == install(out, exitOK, errorOutput) IN
           /\ cyc' = AfterInstall(cyc, r)
           /\ IF r.installed
              THEN pc' = "f_test" /\ UNCHANGED <<changed, timer>>
              ELSE EnterSelect
    /\ UNCHANGED <<farVars, flagVars, reterr, no_run, ierr, errorOutput, changes, supVars,
                   prevOut, histDeb, nprod>>

\* if *do_tests { passed, _ := test(buildpath); if !passed { return } }
FTest ==
    /\ pc = "f_test"
    /\ IF do_tests
       THEN \E passed \in BOOLEAN :
              /\ cyc' = AfterTest(cyc, passed)
              /\ IF passed
                 THEN pc' = "f_build" /\ UNCHANGED <<changed, timer>>
                 ELSE EnterSelect
       ELSE /\ pc' = "f_build"
            /\ UNCHANGED <<cyc, changed, timer>>
    /\ UNCHANGED <<farVars, flagVars, reterr, no_run, ierr, errorOutput, changes, supVars,
                   prevOut, histDeb, nprod>>

\* Faulty variant, for mutation analysis: packaging skipped in no-run mode.
FBuildCondRunOnly == do_build /\ ~never_run
FBuildCond == do_build
FSendCond == ~never_run

\* if *do_build { gobuild(buildpath) }; if !never_run { runch <- true }
FBuild ==
    /\ pc = "f_build"
    /\ IF FBuildCond
       THEN \E passed \in BOOLEAN : cyc' = AfterBuild(cyc, passed)
       ELSE UNCHANGED cyc
    /\ IF FSendCond
       THEN pc' = "f_send" /\ UNCHANGED <<changed, timer>>
       ELSE EnterSelect
    /\ UNCHANGED <<farVars, flagVars, reterr, no_run, ierr, errorOutput, changes, supVars,
                   prevOut, histDeb, nprod>>

\* ------------------------------------------------------------ run
\* runch <- true meets `for relaunch := range runch`: runch is unbuffered,
\* so the send completes when the supervisor receives.
Send ==
    /\ pc \in {"s_send", "f_send"}
    /\ spc = "recv"
    /\ relaunch' = TRUE
    /\ spc' = IF proc # 0 THEN "signal" ELSE "spawn"
    /\ cyc' = [cyc EXCEPT !.sent = TRUE]
    /\ EnterSelect
    /\ UNCHANGED <<farVars, flagVars, reterr, no_run, ierr, errorOutput, changes, proc, child,
                   prevOut, histDeb, nprod>>

\* err := proc.Signal(os.Interrupt). A child that handles the interrupt
\* starts to exit ("dying"); one that ignores it keeps running.
SupSignal ==
    /\ spc = "signal"
    /\ \E err \in BOOLEAN :
         IF err
         THEN spc' = "kill" /\ UNCHANGED child
         ELSE /\ spc' = "wait"
              /\ \E obeys \in BOOLEAN :
                   child' = IF obeys /\ child[proc] = "running"
                            THEN [child EXCEPT ![proc] = "dying"]
                            ELSE child
    /\ UNCHANGED <<farVars, flagVars, reterr, pc, no_run, ierr, errorOutput, debVars, proc,
                   relaunch, cyc, prevOut, histDeb, nprod>>

\* proc.Kill(), its error ignored
SupKill ==
    /\ spc = "kill"
    /\ \E ok \in BOOLEAN :
         child' = IF ok /\ child[proc] \in {"running", "dying"}
                  THEN [child EXCEPT ![proc] = "zombie"]
                  ELSE child
    /\ spc' = "wait"
    /\ UNCHANGED <<farVars, flagVars, reterr, pc, no_run, ierr, errorOutput, debVars, proc,
                   relaunch, cyc, prevOut, histDeb, nprod>>

\* Faulty variant, for mutation analysis: the supervisor does not wait for the old child.
SupWaitNoReap ==
    /\ spc = "wait"
    /\ spc' = IF relaunch THEN "spawn" ELSE "recv"
    /\ UNCHANGED <<farVars, flagVars, reterr, pc, no_run, ierr, errorOutput, debVars, proc,
                   relaunch, child, cyc, prevOut, histDeb, nprod>>

\* proc.Wait() returns once the child has exited, and reaps it.
SupWait ==
    /\ spc = "wait"
    /\ child[proc] = "zombie"
    /\ child' = [child EXCEPT ![proc] = "free"]
    /\ spc' = IF relaunch THEN "spawn" ELSE "recv"
    /\ UNCHANGED <<farVars, flagVars, reterr, pc, no_run, ierr, errorOutput, debVars, proc,
                   relaunch, cyc, prevOut, histDeb, nprod>>

FreePids == {p \in Pids : child[p] = "free"}
LowestFree == CHOOSE p \in FreePids : \A q \in FreePids : p <= q

\* Faulty variant, for mutation analysis: a failed Start leaves the old handle in proc.
SupSpawnKeepsHandle ==
    /\ spc = "spawn"
    /\ \E ok \in BOOLEAN :
         IF ok /\ FreePids # {}
         THEN /\ proc' = LowestFree
              /\ child' = [child EXCEPT ![LowestFree] = "running"]
         ELSE UNCHANGED <<proc, child>>
    /\ spc' = "recv"
    /\ UNCHANGED <<farVars, flagVars, reterr, pc, no_run, ierr, errorOutput, debVars,
                   relaunch, cyc, prevOut, histDeb, nprod>>

\* cmd.Start(); proc = cmd.Process (nil when Start failed)
SupSpawn ==
    /\ spc = "spawn"
    /\ \E ok \in BOOLEAN :
         IF ok /\ FreePids # {}
         THEN /\ proc' = LowestFree
              /\ child' = [child EXCEPT ![LowestFree] = "running"]
         ELSE /\ proc' = 0
              /\ UNCHANGED child
    /\ spc' = "recv"
    /\ UNCHANGED <<farVars, flagVars, reterr, pc, no_run, ierr, errorOutput, debVars,
                   relaunch, cyc, prevOut, histDeb, nprod>>

\* ------------------------------------------------------------ environment
\* A running child exits on its own.
ChildExit ==
    /\ \E p \in Pids :
         /\ child[p] = "running"
         /\ child' = [child EXCEPT ![p] = "zombie"]
    /\ UNCHANGED <<farVars, flagVars, reterr, pc, no_run, ierr, errorOutput, debVars, spc,
                   proc, relaunch, cyc, prevOut, histDeb, nprod>>

\* An interrupted child that handles the interrupt finishes exiting.
ChildDies ==
    /\ \E p \in Pids :
         /\ child[p] = "dying"
         /\ child' = [child EXCEPT ![p] = "zombie"]
    /\ UNCHANGED <<farVars, flagVars, reterr, pc, no_run, ierr, errorOutput, debVars, spc,
                   proc, relaunch, cyc, prevOut, histDeb, nprod>>

\* One unit of time passes. debounce's select is never late: no time passes
\* while it has a ready case.
Tick ==
    /\ ~(pc = "select" /\ (timer = 0 \/ changes # <<>>))
    /\ pc # "exit"
    /\ timer' = IF pc = "select" THEN timer - 1 ELSE timer
    /\ gap' = Min(gap + 1, W + 1)
    /\ UNCHANGED <<farVars, flagVars, reterr, pc, no_run, ierr, errorOutput, changes, changed,
                   supVars, cyc, prevOut, lastGo, nburst, ntrig, trigPath,
                   trigGap, scope, owed, coal, nprod>>

Next ==
    \/ Resolve
    \/ STest
    \/ SBuild
    \/ SInstall
    \/ Produce
    \/ DebounceRecv
    \/ DebounceTimer
    \/ FInstall
    \/ FTest
    \/ FBuild
    \/ Send
    \/ SupSignal
    \/ SupKill
    \/ SupWait
    \/ SupSpawn
    \/ ChildExit
    \/ ChildDies
    \/ Tick

Spec == Init /\ [][Next]_vars


\* ------------------------------------------------------- watch-set builders
\* pkg.Imports of an import path, in order.
ImportsOf(m) ==
    IF m \in Packages
    THEN SelectSeq(ImportOrder, LAMBDA x : x \in imports[m])
    ELSE <<>>
Top == wstack[Len(wstack)]
\* The stack after the running call returned.
Pop == SubSeq(wstack, 1, Len(wstack) - 1)
\* The stack with the running call's loop index advanced.
Advance == [wstack EXCEPT ![Len(wstack)].i = @ + 1]
\* A recursive call: one more frame, or the runtime's stack overflow.
Call(stack, imp) ==
    IF Len(stack) < MaxStack
    THEN wstack' = Append(stack, [mod |-> imp, i |-> 0]) /\ UNCHANGED wstate
    ELSE wstack' = stack /\ wstate' = "overflow"

\* The import graphs the builders are run on: diamonds (main -> a, b -> c),
\* cycles (a <-> b, a -> c -> a, main -> a -> c -> main), standard-library
\* and unresolvable imports.
InitWatch ==
    /\ do_tests = FALSE /\ do_build = FALSE /\ never_run = FALSE
    /\ SysInit
    /\ builder \in {"watch", "addToWatcher"}
    /\ \E im \in SUBSET {"a", "b", "fmt"}, ia \in SUBSET {"b", "c", "gone"},
          ib \in SUBSET {"a", "c", "fmt"}, ic \in SUBSET {"a", "main"} :
         imports = [m \in Packages |->
                      CASE m = "main" -> im [] m = "a" -> ia
                        [] m = "b" -> ib [] OTHER -> ic]
    /\ wstack = <<[mod |-> "main", i |-> 0]>>
    /\ watching = {}
    /\ subs = [m \in Packages |-> 0]
    /\ wstate = "building"
    /\ touched = {}
    /\ forwarded = {}
    /\ edit = NoEdit
    /\ ConnIdle
    /\ LoopIdle

\* watch (part_000): build.Import, the error return and the Goroot return.
WatchImport ==
    /\ builder = "watch" /\ wstate = "building"
    /\ Top.i = 0
    /\ IF Top.mod \in Unresolved \cup Goroot
       THEN wstack' = Pop
       ELSE wstack' = Advance
    /\ UNCHANGED <<sysVars, connVars, loopVars, edit, builder, imports, watching, subs, wstate,
                   touched, forwarded>>

\* for _, imp := range pkg.Imports { if _, exists := watching[imp]; !exists
\* { watch(imp, buildCh) } }: nothing ever writes to the map.
WatchRecurse ==
    /\ builder = "watch" /\ wstate = "building"
    /\ Top.i \in 1 .. Len(ImportsOf(Top.mod))
    /\ LET imp == ImportsOf(Top.mod)[Top.i] IN
         IF imp \notin watching
         THEN Call(Advance, imp)
         ELSE wstack' = Advance /\ UNCHANGED wstate
    /\ UNCHANGED <<sysVars, connVars, loopVars, edit, builder, imports, watching, subs, touched,
                   forwarded>>

\* notify.Watch(pkg.Dir+"/...", eventCh, notify.All): on an error watch
\* returns it (the caller, if a watch, drops it; rerun's goroutine ends the
\* program); otherwise the call enters `for ev := range eventCh`.
WatchSubscribe ==
    /\ builder = "watch" /\ wstate = "building"
    /\ Top.i > Len(ImportsOf(Top.mod))
    /\ \E ok \in BOOLEAN :
         IF ok
         THEN /\ subs' = [subs EXCEPT ![Top.mod] = @ + 1]
              /\ wstate' = "blocked"
              /\ UNCHANGED wstack
         ELSE /\ wstack' = Pop
              /\ wstate' = IF Len(wstack) = 1 THEN "fatal" ELSE wstate
              /\ UNCHANGED subs
    /\ UNCHANGED <<sysVars, connVars, loopVars, edit, builder, imports, watching, touched, forwarded>>

\* addToWatcher (rerun.go): build.Import, the two early returns, then
\* watcher.Watch(pkg.Dir) and watching[importpath] = true.
AddImport ==
    /\ builder = "addToWatcher" /\ wstate = "building"
    /\ Top.i = 0
    /\ IF Top.mod \in Unresolved \cup Goroot
       THEN /\ wstack' = Pop
            /\ UNCHANGED <<subs, watching>>
       ELSE /\ subs' = [subs EXCEPT ![Top.mod] = @ + 1]
            /\ watching' = watching \cup {Top.mod}
            /\ wstack' = Advance
    /\ UNCHANGED <<sysVars, connVars, loopVars, edit, builder, imports, wstate, touched, forwarded>>

\* for _, imp := range pkg.Imports { if !watching[imp] { addToWatcher(...) } }
AddRecurse ==
    /\ builder = "addToWatcher" /\ wstate = "building"
    /\ Top.i \in 1 .. Len(ImportsOf(Top.mod))
    /\ LET imp == ImportsOf(Top.mod)[Top.i] IN
         IF imp \notin watching
         THEN Call(Advance, imp)
         ELSE wstack' = Advance /\ UNCHANGED wstate
    /\ UNCHANGED <<sysVars, connVars, loopVars, edit, builder, imports, watching, subs, touched,
                   forwarded>>

\* addToWatcher returns; getWatcher returns when the outermost call does.
AddReturn ==
    /\ builder = "addToWatcher" /\ wstate = "building"
    /\ Top.i > Len(ImportsOf(Top.mod))
    /\ wstack' = Pop
    /\ wstate' = IF Len(wstack) = 1 THEN "done" ELSE wstate
    /\ UNCHANGED <<sysVars, connVars, loopVars, edit, builder, imports, watching, subs, touched,
                   forwarded>>

\* The directories whose events reach the consumer: watch forwards only
\* from the eventCh of the call that sits in its range loop; the fsnotify
\* watcher of rerun.go delivers from every directory added to it.
Delivering ==
    IF builder = "watch"
    THEN (IF wstate = "blocked" THEN {Top.mod} ELSE {})
    ELSE {m \in Packages : subs[m] > 0}

\* A source file changes in the directory of package d once the
\* construction has settled.
FileChange ==
    /\ wstate \in {"blocked", "done"}
    /\ \E d \in Packages :
         /\ touched' = touched \cup {d}
         /\ forwarded' = forwarded \cup ({d} \cap Delivering)
    /\ UNCHANGED <<sysVars, connVars, loopVars, edit, builder, imports, wstack, watching, subs, wstate>>

\* The workspace packages the entry module imports, directly or not.
Grow(S) == S \cup {n \in Packages : \E m \in S : n \in imports[m]}
Reach == Grow(Grow(Grow({"main"})))

\* While watch sits in its range loop, a source file of package m is
\* edited: an import of workspace package n is added to it, or removed.
EditImports ==
    /\ builder = "watch" /\ wstate = "blocked"
    /\ edit.phase = "none"
    /\ \E m \in Packages, n \in Packages \ {"main"} :
         /\ n # m
         /\ imports' = [imports EXCEPT
                          ![m] = IF n \in @ THEN @ \ {n} ELSE @ \cup {n}]
    /\ edit' = [phase |-> "edited", sound |-> (Reach = Delivering)]
    /\ UNCHANGED <<sysVars, connVars, loopVars, builder, wstack, watching, subs, wstate, touched,
                   forwarded>>

\* A change in a directory that delivers events goes through debounce and
\* f runs to its end with every stage passing: f does not touch the
\* subscriptions, and nothing calls watch again.
CycleAfterEdit ==
    /\ builder = "watch" /\ wstate = "blocked"
    /\ edit.phase = "edited"
    /\ \E d \in Delivering :
         /\ touched' = touched \cup {d}
         /\ forwarded' = forwarded \cup {d}
    /\ edit' = [edit EXCEPT !.phase = "ran"]
    /\ UNCHANGED <<sysVars, connVars, loopVars, builder, imports, wstack, watching, subs, wstate>>

NextWatch ==
    \/ EditImports
    \/ CycleAfterEdit
    \/ WatchImport
    \/ WatchRecurse
    \/ WatchSubscribe
    \/ AddImport
    \/ AddRecurse
    \/ AddReturn
    \/ FileChange

SpecWatch == InitWatch /\ [][NextWatch]_vars

\* ------------------------------------------------------------------ connect
\* The bytes of a payload, one number each: the JSON punctuation, and one
\* byte standing for each whole string literal, number, object or null.
LBracket == 91
RBracket == 93
Comma == 44
StrA == 97
StrB == 98
StrDir == 100
StrFile == 102
StrModified == 109
Num == 49
Obj == 123
Null == 110
IsString(t) == t \in {StrA, StrB, StrDir, StrFile, StrModified}
IsValue(t) == IsString(t) \/ t \in {Num, Obj, Null}

\* The payloads the remote writes: the two messages of the listen protocol
\* (type, change, directory, path and, in the second, one more element),
\* an array of three elements, an array with a number at index 3, null,
\* an object, text that is not JSON, and the empty payload.
Docs ==
    { <<LBracket, StrFile, Comma, StrModified, Comma, StrDir, Comma, StrA,
        RBracket>>,
      <<LBracket, StrFile, Comma, StrModified, Comma, StrDir, Comma, StrB,
        Comma, Obj, RBracket>>,
      <<LBracket, StrFile, Comma, StrModified, Comma, StrDir, RBracket>>,
      <<LBracket, StrFile, Comma, StrModified, Comma, StrDir, Comma, Num,
        RBracket>>,
      <<Null>>,
      <<Obj>>,
      <<LBracket, StrFile, Comma>>,
      <<>> }
\* By how much the announced length differs from the payload written.
Offsets == {-1, 0, 1}
Frames == {fr \in [doc : Docs, off : Offsets] : Len(fr.doc) + fr.off >= 0}
Scripts == UNION {[1 .. n -> Frames] : n \in 0 .. MaxMsgs}

Take(s, n) == SubSeq(s, 1, Min(n, Len(s)))
Drop(s, n) == SubSeq(s, Min(n, Len(s)) + 1, Len(s))
\* The remote's encoding of a length: four bytes, most significant first.
Prefix32(n) ==
    <<(n \div 16777216) % 256, (n \div 65536) % 256, (n \div 256) % 256,
      n % 256>>
\* binary.Read(conn, binary.BigEndian, &length) on four bytes
BigEndian32(b) == ((b[1] * 256 + b[2]) * 256 + b[3]) * 256 + b[4]
\* What the remote writes for one frame, and for a script of frames.
Frame(fr) == Prefix32(Len(fr.doc) + fr.off) \o fr.doc
RECURSIVE Wire(_)
Wire(sc) == IF sc = <<>> THEN <<>> ELSE Frame(Head(sc)) \o Wire(Tail(sc))

\* The text is `[`, values separated by commas, `]`.
IsArrayText(b) ==
    /\ Len(b) >= 2
    /\ b[1] = LBracket
    /\ b[Len(b)] = RBracket
    /\ \/ Len(b) = 2
       \/ /\ Len(b) % 2 = 1
          /\ \A i \in 2 .. Len(b) - 1 :
                IF i % 2 = 0 THEN IsValue(b[i]) ELSE b[i] = Comma
\* The values of an array text, in order.
Elements(b) == [j \in 1 .. (Len(b) - 1) \div 2 |-> b[2 * j]]
\* json.Unmarshal(buf, &msg) with msg a nil []interface{}: null leaves msg
\* nil, an array fills it, anything else is an error.
Unmarshal(b) ==
    IF b = <<Null>> THEN [err |-> FALSE, msg |-> <<>>]
    ELSE IF IsArrayText(b) THEN [err |-> FALSE, msg |-> Elements(b)]
    ELSE [err |-> TRUE, msg |-> <<>>]
\* msg[i] of Go, counted from 0
Index(msg, i) == msg[i + 1]

\* connect was started on a stream the remote fills with the frames of a
\* script and closes after `cut` bytes.
InitConnect ==
    /\ do_tests = FALSE /\ do_build = FALSE /\ never_run = FALSE
    /\ SysInit
    /\ WatchIdle
    /\ LoopIdle
    /\ cpc = "dial"
    /\ script \in Scripts
    /\ cut \in 0 .. Len(Wire(script))
    /\ stream = Take(Wire(script), cut)
    /\ length = 0
    /\ buf = <<>>
    /\ cerr = "nil"
    /\ buildCh = <<>>

\* conn, err := net.Dial("tcp", address)
ConnDial ==
    /\ cpc = "dial"
    /\ \E ok \in BOOLEAN :
         IF ok
         THEN cpc' = "length" /\ UNCHANGED cerr
         ELSE cpc' = "returned" /\ cerr' = "dial"
    /\ UNCHANGED <<sysVars, watchVars, loopVars, stream, length, buf, buildCh,
                   script, cut>>

\* err := binary.Read(conn, binary.BigEndian, &length)
ConnReadLength ==
    /\ cpc = "length"
    /\ IF Len(stream) >= 4
       THEN /\ length' = BigEndian32(Take(stream, 4))
            /\ stream' = Drop(stream, 4)
            /\ cpc' = "payload"
            /\ UNCHANGED cerr
       ELSE /\ cerr' = IF stream = <<>> THEN "EOF" ELSE "unexpected EOF"
            /\ stream' = <<>>
            /\ cpc' = "returned"
            /\ UNCHANGED length
    /\ UNCHANGED <<sysVars, watchVars, loopVars, buf, buildCh, script, cut>>

\* buf = make([]byte, length); io.ReadFull(conn, buf)
ConnReadFull ==
    /\ cpc = "payload"
    /\ IF Len(stream) >= length
       THEN /\ buf' = Take(stream, length)
            /\ stream' = Drop(stream, length)
            /\ cpc' = "decode"
            /\ UNCHANGED cerr
       ELSE /\ cerr' = IF stream = <<>> THEN "EOF" ELSE "unexpected EOF"
            /\ stream' = <<>>
            /\ cpc' = "returned"
            /\ UNCHANGED buf
    /\ UNCHANGED <<sysVars, watchVars, loopVars, length, buildCh, script, cut>>

\* json.Unmarshal(buf, &msg), then buildCh <- msg[3].(string): the index
\* and the type assertion panic when msg has no string there.
ConnDecode ==
    /\ cpc = "decode"
    /\ LET r == Unmarshal(buf) IN
         IF r.err
         THEN /\ cerr' = "json"
              /\ cpc' = "returned"
              /\ UNCHANGED buildCh
         ELSE IF Len(r.msg) <= 3 \/ ~IsString(Index(r.msg, 3))
         THEN /\ cpc' = "panicked"
              /\ UNCHANGED <<cerr, buildCh>>
         ELSE /\ buildCh' = Append(buildCh, Index(r.msg, 3))
              /\ cpc' = "length"
              /\ UNCHANGED cerr
    /\ UNCHANGED <<sysVars, watchVars, loopVars, stream, length, buf, script,
                   cut>>

NextConnect ==
    \/ ConnDial
    \/ ConnReadLength
    \/ ConnReadFull
    \/ ConnDecode

SpecConnect == InitConnect /\ [][NextConnect]_vars

\* ------------------------------------------------- the watch loop, rerun.go
\* A watcher as fsnotify.NewWatcher returns it: open, its goroutine idle
\* (not blocked sending on Event or on Error), and no goroutine of rerun
\* ranging over either channel.
NewWatcher == [closed |-> FALSE, prod |-> "idle", events |-> FALSE,
               errors |-> FALSE]
Watchers == 1 .. Len(ws)

\* rerun has reached `watcher, err = getWatcher(buildpath)`.
InitLoop ==
    /\ do_tests = FALSE /\ do_build = FALSE /\ never_run = FALSE
    /\ SysInit
    /\ WatchIdle
    /\ ConnIdle
    /\ lpc = "getWatcher"
    /\ cur = 0
    /\ ws = <<>>

\* watcher, err = getWatcher(buildpath); if err != nil { return }
LoopStart ==
    /\ lpc = "getWatcher"
    /\ \E ok \in BOOLEAN :
         IF ok
         THEN /\ ws' = Append(ws, NewWatcher)
              /\ cur' = Len(ws) + 1
              /\ lpc' = "recv"
         ELSE /\ lpc' = "returned"
              /\ UNCHANGED <<cur, ws>>
    /\ UNCHANGED <<sysVars, watchVars, connVars>>

\* we, _ := <-watcher.Event
LoopRecv ==
    /\ lpc = "recv"
    /\ Len(ws) < MaxWatchers
    /\ ws[cur].prod = "event"
    /\ ws' = [ws EXCEPT ![cur].prod = "idle"]
    /\ lpc' = "close"
    /\ UNCHANGED <<sysVars, watchVars, connVars, cur>>

\* watcher.Close(), and the goroutine that ranges over the closed
\* watcher's Event channel
LoopClose ==
    /\ lpc = "close"
    /\ ws' = [ws EXCEPT ![cur].closed = TRUE, ![cur].events = TRUE]
    /\ lpc' = "rescan"
    /\ UNCHANGED <<sysVars, watchVars, connVars, cur>>

\* watcher, err = getWatcher(buildpath); if err != nil { return }; then the
\* goroutine that ranges over the new watcher's Error channel
LoopRescan ==
    /\ lpc = "rescan"
    /\ \E ok \in BOOLEAN :
         IF ok
         THEN /\ ws' = Append(ws, [NewWatcher EXCEPT !.errors = TRUE])
              /\ cur' = Len(ws) + 1
              /\ lpc' = "pipeline"
         ELSE /\ lpc' = "returned"
              /\ cur' = 0
              /\ UNCHANGED ws
    /\ UNCHANGED <<sysVars, watchVars, connVars>>

\* install, test and the send on runch, then the next iteration
LoopPipeline ==
    /\ lpc = "pipeline"
    /\ lpc' = "recv"
    /\ UNCHANGED <<sysVars, watchVars, connVars, cur, ws>>

\* The goroutine of an open watcher has a file event, or an error, and
\* blocks sending it on the watcher's unbuffered channel.
ProdEvent ==
    /\ \E w \in Watchers :
         /\ ws[w].prod = "idle" /\ ~ws[w].closed
         /\ ws' = [ws EXCEPT ![w].prod = "event"]
    /\ UNCHANGED <<sysVars, watchVars, connVars, lpc, cur>>
ProdError ==
    /\ \E w \in Watchers :
         /\ ws[w].prod = "idle" /\ ~ws[w].closed
         /\ ws' = [ws EXCEPT ![w].prod = "error"]
    /\ UNCHANGED <<sysVars, watchVars, connVars, lpc, cur>>

\* for _ = range events { }
DrainEvents ==
    /\ \E w \in Watchers :
         /\ ws[w].events /\ ws[w].prod = "event"
         /\ ws' = [ws EXCEPT ![w].prod = "idle"]
    /\ UNCHANGED <<sysVars, watchVars, connVars, lpc, cur>>

\* for _ = range errors { }
DrainErrors ==
    /\ \E w \in Watchers :
         /\ ws[w].errors /\ ws[w].prod = "error"
         /\ ws' = [ws EXCEPT ![w].prod = "idle"]
    /\ UNCHANGED <<sysVars, watchVars, connVars, lpc, cur>>

\* The goroutine of a closed watcher, when not blocked in a send, closes
\* both channels and ends; the range loops over them end with it.
ProdExit ==
    /\ \E w \in Watchers :
         /\ ws[w].closed /\ ws[w].prod = "idle"
         /\ ws' = [ws EXCEPT ![w].prod = "exited"]
    /\ UNCHANGED <<sysVars, watchVars, connVars, lpc, cur>>

NextLoop ==
    \/ LoopStart
    \/ LoopRecv
    \/ LoopClose
    \/ LoopRescan
    \/ LoopPipeline
    \/ ProdEvent
    \/ ProdError
    \/ DrainEvents
    \/ DrainErrors
    \/ ProdExit

SpecLoop == InitLoop /\ [][NextLoop]_vars

\* The scheduling the Go runtime guarantees: a goroutine that can run does
\* run, and a child that handles the interrupt does exit.
MainStep ==
    \/ Resolve \/ STest \/ SBuild \/ SInstall \/ DebounceRecv
    \/ DebounceTimer \/ FInstall \/ FTest \/ FBuild \/ Send
SupStep == SupSignal \/ SupKill \/ SupWait \/ SupSpawn
FairSpec ==
    /\ Spec
    /\ WF_vars(MainStep)
    /\ WF_vars(SupStep)
    /\ WF_vars(ChildDies)

\* The child the supervisor waits for exits.
WaitedExit == spc = "wait" /\ ChildExit
\* rerun --test --build, without --no-run: every stage runs and every
\* cycle that passes them sends a restart request.
CoopInit == Init /\ do_tests /\ do_build /\ ~never_run
\* The fairness of FairSpec, with time that passes and children that exit
\* once the supervisor has signalled them and waits.
CoopSpec ==
    /\ CoopInit /\ [][Next]_vars
    /\ WF_vars(MainStep)
    /\ WF_vars(SupStep)
    /\ WF_vars(ChildDies)
    /\ WF_vars(Tick)
    /\ WF_vars(WaitedExit)

\* ------------------------------------------------------------------ claims
Sending == pc \in {"s_send", "f_send"}
InF == pc \in {"f_install", "f_test", "f_build", "f_send"}
Live == {p \in Pids : child[p] \in {"running", "dying", "zombie"}}
IsPrefix(s, t) == Len(s) <= Len(t) /\ \A i \in 1 .. Len(s) : s[i] = t[i]

\* C1: while every event so far is a .go event that arrived with debounce
\* at its select and not exactly one window after its predecessor, every
\* burst (events less than W apart) has produced exactly one trigger, save
\* the burst still pending; a trigger is emitted no sooner than W after the
\* last event received and carries that event's path.
C1_OneTriggerPerBurst ==
    /\ scope =>
         ntrig = nburst - (IF pc = "select" /\ changed # NoFile THEN 1 ELSE 0)
    /\ (InF /\ ntrig > 0) => (trigPath = lastGo /\ trigGap >= W)

\* Two bursts, the second of two events, each answered by its one trigger.
C1_Witness ==
    /\ scope
    /\ nprod = 3
    /\ nburst = 2
    /\ ntrig = 2
    /\ InF
    /\ trigPath = <<"b", ".go">>

\* The Install stage of the current cycle failed: install() reported
\* not-installed, or the startup cycle read a non-nil error from it.
InstallFailed ==
    \/ cyc.inst = "fail"
    \/ cyc.kind = "startup" /\ InSeq("install", cyc.stages) /\ ierr # "nil"

ExpectedStages ==
    <<"install">> \o (IF do_tests THEN <<"test">> ELSE <<>>)
                  \o (IF do_build THEN <<"build">> ELSE <<>>)

\* C3: in every cycle the stages run in the order Install, Test, Package,
\* and Test or Package runs only after Install succeeded in that cycle.
C3_StageOrder ==
    /\ IsPrefix(cyc.stages, ExpectedStages)
    /\ (InSeq("test", cyc.stages) \/ InSeq("build", cyc.stages))
         => cyc.inst = "ok"

\* C4: a cycle whose Install failed printed the output exactly when it
\* differs from the Install output of the cycle before.
C4_DedupConsecutive ==
    cyc.inst = "fail" => (cyc.printed <=> (cyc.out # prevOut))

\* C5: in a cycle whose Test stage failed, Package did not run and no
\* restart request is sent.
C5_TestFailGates ==
    cyc.test = "fail" =>
        /\ ~InSeq("build", cyc.stages)
        /\ ~cyc.sent
        /\ ~Sending

\* A change-triggered cycle with a running child: Install passed, Test
\* failed, and the cycle is over.
C5_Witness ==
    /\ do_build
    /\ cyc.kind = "change"
    /\ cyc.inst = "ok"
    /\ cyc.test = "fail"
    /\ pc = "select"
    /\ proc # 0

\* The stages a finished cycle must have run, were no-run unset.
StagesRun ==
    LET past == cyc.kind = "startup" \/ cyc.inst = "ok" IN
      /\ InSeq("install", cyc.stages)
      /\ (do_tests /\ past) => InSeq("test", cyc.stages)
      /\ (do_build /\ past /\ cyc.test # "fail") => InSeq("build", cyc.stages)

\* C6: with no-run set the supervisor is never started, no restart request
\* is sent and no child exists, while every finished cycle has run Install
\* and the enabled Test and Package stages.
C6_NoRunStillBuilds ==
    never_run =>
        /\ spc = "off" /\ proc = 0 /\ Live = {}
        /\ ~cyc.sent /\ ~Sending
        /\ (pc = "select" /\ cyc.kind # "none") => StagesRun

\* A change-triggered cycle under no-run that ran all three stages.
C6_Witness ==
    /\ never_run
    /\ pc = "select"
    /\ cyc.kind = "change"
    /\ cyc.stages = <<"install", "test", "build">>

\* C7: at most one spawned and not yet reaped child exists, and the
\* supervisor spawns only when none does.
C7_OneChild ==
    /\ Cardinality(Live) <= 1
    /\ spc = "spawn" => Live = {}

\* The next restart request is already waiting while the supervisor still
\* waits for the interrupted child of the previous one.
C7_Witness ==
    /\ pc = "f_send"
    /\ spc = "wait"
    /\ child[proc] = "dying"

\* C8: every accepted restart request is followed by a spawn attempt, and
\* the orchestration loop's hand-over of a request always completes.
C8_RestartCompletes ==
    /\ (spc \in {"signal", "kill", "wait"} /\ relaunch) ~> (spc = "spawn")
    /\ Sending ~> (pc = "select")


\* C9: once watch has settled, every package reachable from the entry
\* module is subscribed, and a change in any of their directories has
\* reached the changes channel.
C9_AllDepsWatched ==
    (builder = "watch" /\ wstate = "blocked") =>
        /\ \A m \in Reach : subs[m] >= 1
        /\ (touched \cap Reach) \subseteq forwarded

\* C10: neither builder recurses without end, and no directory is
\* subscribed twice.
C10_TerminatesOnce ==
    /\ wstate # "overflow"
    /\ \A m \in Packages : subs[m] <= 1

\* C11: after the import graph was edited under a watch set that covered
\* it, and a pipeline cycle succeeded since, the directories that deliver
\* events are those of the packages the entry module now reaches.
C11_RebuiltAfterEdit ==
    (builder = "watch" /\ edit.phase = "ran" /\ edit.sound)
        => Delivering = Reach

\* C12: when the entry module cannot be imported, or its package is not
\* "main", rerun returns an error and has run no stage, started no
\* supervisor, spawned no child and started no event producer; rerun
\* returns an error in no other case, and the error about the package name
\* carries the expected name "main" and the actual one.
C12_ResolveFirst ==
    /\ pc = "exit" =>
         /\ reterr # <<"nil">>
         /\ cyc = NoCycle
         /\ spc = "off" /\ proc = 0 /\ Live = {}
         /\ nprod = 0 /\ changes = <<>>
    /\ reterr # <<"nil">> => pc = "exit"
    /\ reterr[1] = "expected package" => (reterr[2] = "main" /\ reterr[4] # "main")

\* rerun returned because the entry module is a library.
C12_Witness ==
    /\ pc = "exit"
    /\ reterr = <<"expected package", "main", "got", "lib">>

\* The Install stage of the current cycle succeeded, as the cycle itself
\* judges it.
InstallSucceeded ==
    /\ cyc.inst = "ok"
    /\ cyc.kind = "startup" => ierr = "nil"

\* A frame that announces its payload's length and carries an array with
\* a string at index 3.
WellFormed(fr) ==
    /\ fr.off = 0
    /\ ~Unmarshal(fr.doc).err
    /\ Len(Unmarshal(fr.doc).msg) >= 4
    /\ IsString(Index(Unmarshal(fr.doc).msg, 3))
\* The strings at index 3 of the well-formed frames that arrived whole
\* within the first c bytes, up to the first frame that is not one.
RECURSIVE Expected(_, _)
Expected(sc, c) ==
    IF sc = <<>> \/ ~WellFormed(Head(sc)) \/ Len(Frame(Head(sc))) > c
    THEN <<>>
    ELSE <<Index(Unmarshal(Head(sc).doc).msg, 3)>>
           \o Expected(Tail(sc), c - Len(Frame(Head(sc))))

\* C13: connect never ends in a panic, it returns only with an error, and
\* what it has sent on buildCh is the string at index 3 of each
\* well-formed frame before the first failure, in order: all of them once
\* connect, having connected, has ended.
C13_DecodeFailureIsError ==
    /\ cpc # "panicked"
    /\ cpc = "returned" => cerr # "nil"
    /\ IsPrefix(buildCh, Expected(script, cut))
    /\ (cpc \in {"returned", "panicked"} /\ cerr # "dial")
         => buildCh = Expected(script, cut)

C15_Coalesced ==
    /\ [](coal.k >= 1 => coal.extra <= 1)
    /\ []((coal.k >= 1 /\ pc = "select" /\ changes = <<>> /\ changed = NoFile)
            => coal.extra = 1)
    /\ [][ntrig' # ntrig => (~InF /\ InF')]_vars

\* Two .go events arrived during a cycle; one more cycle ran and ended,
\* and nothing is pending.
C15_Witness ==
    /\ coal = [k |-> 2, extra |-> 1]
    /\ pc = "select"
    /\ changes = <<>>
    /\ changed = NoFile
    /\ ntrig = 2

\* C16: with build mode on and no-run unset, a cycle that is past its
\* stages with Install succeeded and Test not failed has run the package
\* stage and is sending, or has sent, its restart request, whatever the
\* package stage reported.
C16_BuildFailureNoGate ==
    (/\ do_build /\ ~never_run
     /\ pc \in {"s_send", "f_send", "select"}
     /\ InstallSucceeded
     /\ cyc.test # "fail")
    => (cyc.build # "none" /\ (Sending \/ cyc.sent))

\* A change-triggered cycle with test mode on whose package stage failed
\* and whose restart request was sent.
C16_Witness ==
    /\ do_tests /\ do_build
    /\ cyc.kind = "change"
    /\ cyc.test = "pass"
    /\ cyc.build = "fail"
    /\ cyc.sent

\* C17: a spawn that produced no child leaves proc nil and the supervisor
\* receiving; the supervisor leaves its receive only on a restart request,
\* and with proc nil it goes from the request straight to the spawn.
C17_SpawnFailure ==
    /\ [][(spc = "spawn" /\ spc' = "recv" /\ child' = child) => proc' = 0]_vars
    /\ [][(spc = "recv" /\ spc' # "recv")
            => (Sending /\ (proc = 0 => spc' = "spawn"))]_vars

\* The startup cycle asked for a spawn, and now a change-triggered cycle's
\* request finds proc nil and goes to the spawn: the spawn before failed.
C17_Witness ==
    /\ ierr = "nil" /\ ~no_run /\ ~never_run
    /\ cyc.kind = "change"
    /\ cyc.sent
    /\ spc = "spawn"
    /\ proc = 0

\* C18: every watcher whose goroutine has not ended has a consumer on its
\* Event channel (the loop, while the watcher is the current one, or a
\* goroutine ranging over the channel) and one on its Error channel.
C18_ChannelsConsumed ==
    \A w \in Watchers :
        ws[w].prod # "exited" =>
            /\ (w = cur /\ lpc # "returned") \/ ws[w].events
            /\ ws[w].errors

\* C19: receiving an event that is not a .go file changes neither the
\* pending slot nor the timer, and a pending trigger is never older than
\* one window, counted from the last .go event received.
C19_NonSourceIgnored ==
    /\ []((pc = "select" /\ changed # NoFile) => gap <= W)
    /\ [][(/\ pc = "select" /\ changes # <<>>
           /\ Ext(Head(changes)) # ".go"
           /\ changes' = Tail(changes))
            => (changed' = changed /\ timer' = timer)]_vars

\* C20: a cycle whose `go get` exited with failure and printed nothing
\* does not go past Install: no later stage, no restart request.
C20_ExitStatusIsFailure ==
    cyc.err = "exit status" =>
        /\ pc \notin {"f_test", "f_build", "f_send", "s_send"}
        /\ ~cyc.sent
        /\ cyc.kind = "change" => cyc.stages = <<"install">>

====
